---------------------------- MODULE Spec2Model ----------------------------
(***************************************************************************)
(* Model of Debug/LLDB.py: the LLDB data formatters of Sundials.swift.     *)
(*                                                                         *)
(* The inspected process holds one Vector variable and one Matrix          *)
(* variable.  The debugger (the host) evaluates expressions against the    *)
(* process, and calls the adapters' hooks once the module has registered   *)
(* them.  Python strings the code builds (expression paths, summaries,     *)
(* commands) are built here the same way; the string the host returns for  *)
(* the content pointer is a sequence of characters, so that int(_, 16)     *)
(* is a real parse.                                                        *)
(***************************************************************************)
EXTENDS Integers, Sequences, FiniteSets, TLC

\* ------------------------------------------------------------------ bounds

\* Largest element count the process stores in a Vector, and largest child
\* index the host asks for.
MaxCount == 3

\* ------------------------------------------------------- the inspected process

\* Names of the two inspected variables in the selected frame.
VectorName == "y"
MatrixName == "A"
LiveFrame == "frame0"
LiveTarget == "target0"

\* What `<name>.count` can hold: initialised memory holds 0..MaxCount, an
\* uninitialised or corrupted Vector holds anything, negative included.
Counts == -1..MaxCount
\* The indices the host asks for: in range, at the count, below zero.
Indices == -1..MaxCount
\* Backing-store addresses of the two values.
Pointers == {0, 43981}
\* Index-typed slots of the mapped content buffer, and what they can hold.
IndexTypeSizes == {0, 8}
MappedSlots == {16, 24}
SlotValues == {4, 5}

\* A Python "str or None": GetValue() of an SBValue.
NoneStr == [isNone |-> TRUE, chars |-> <<>>]
Str(cs) == [isNone |-> FALSE, chars |-> cs]
\* What the host can return as the text of `<name>.pointer.pointee.content!`:
\* no value, an empty string, the null address, the buffer's address, and
\* text that is no hexadecimal literal.
NullAddressText == Str(<<"0", "x", "0", "0", "0", "0">>)
BufferAddressText == Str(<<"0", "x", "0", "0", "1", "0">>)
MalformedText == Str(<<"n", "i", "l">>)
ContentValues ==
    {NoneStr, Str(<<>>), NullAddressText, BufferAddressText, MalformedText}

VARIABLES
    commands,    \* the commands HandleCommand received, each a list of words
    count,       \* [valid, int]: what `y.count` evaluates to
    vecPointer,  \* address `y.pointer` evaluates to
    matPointer,  \* address `A.pointer` evaluates to
    content,     \* text of `A.pointer.pointee.content!`
    indexSize,   \* byte size of sunindextype; 0 when the type is not found
    mem,         \* the mapped index-typed slots of the process
    vector,      \* the synthetic wrapper the host constructed for `y`
    last,        \* the most recent hook call and what it returned
    snapshot     \* an earlier call on the same unchanged process, or none

process == <<count, vecPointer, matPointer, content, indexSize, mem>>
vars == <<commands, count, vecPointer, matPointer, content, indexSize, mem,
          vector, last, snapshot>>

\* ------------------------------------------------------------ host (lldb)

\* An SBValue as far as the adapters read it.
InvalidValue == [valid |-> FALSE, int |-> 0, text |-> NoneStr]
IntValue(n) == [valid |-> TRUE, int |-> n, text |-> NoneStr]
TextValue(t) == [valid |-> ~t.isNone, int |-> 0, text |-> t]

\* The handle of an inspected variable, as the host passes it to a hook.
ValueHandle(name) == [name |-> name, frame |-> LiveFrame, target |-> LiveTarget]

\* SBFrame.EvaluateExpression: the expressions the process can answer; any
\* other expression, or a dead frame, gives an invalid value.
EvaluateExpression(frame, expr) ==
    IF frame # LiveFrame THEN InvalidValue
    ELSE IF expr = VectorName \o ".count" THEN count
    ELSE IF expr = VectorName \o ".pointer" THEN IntValue(vecPointer)
    ELSE IF expr = MatrixName \o ".pointer" THEN IntValue(matPointer)
    ELSE IF expr = MatrixName \o ".pointer.pointee.content!" THEN TextValue(content)
    ELSE InvalidValue

\* SBValue.GetValueAsUnsigned() and SBValue.signed: 0 for an invalid value.
GetValueAsUnsigned(v) == IF v.valid THEN v.int ELSE 0
signed(v) == IF v.valid THEN v.int ELSE 0
GetValue(v) == v.text

\* SBTarget.FindFirstType("sunindextype").GetByteSize().
FindFirstType(target, typeName) ==
    IF target = LiveTarget /\ typeName = "sunindextype" THEN indexSize ELSE 0

\* SBValue.CreateValueFromAddress(name, address, type).GetValueAsUnsigned():
\* an unknown type or an unmapped address reads as 0.
ReadUnsigned(address, type) ==
    IF type > 0 /\ address \in DOMAIN mem THEN mem[address] ELSE 0

\* --------------------------------------------------------- Python built-ins

HexDigits == <<"0", "1", "2", "3", "4", "5", "6", "7",
               "8", "9", "a", "b", "c", "d", "e", "f">>
UpperHexDigits == <<"0", "1", "2", "3", "4", "5", "6", "7",
                    "8", "9", "A", "B", "C", "D", "E", "F">>

\* FormatHex with the digits of format(n, "X").
RECURSIVE FormatHex_upper(_)
FormatHex_upper(n) ==
    IF n < 16 THEN UpperHexDigits[n + 1]
    ELSE FormatHex_upper(n \div 16) \o UpperHexDigits[(n % 16) + 1]

\* format(n, "x") for n >= 0: lowercase hexadecimal, no padding.
RECURSIVE FormatHex(_)
FormatHex(n) ==
    IF n < 16 THEN HexDigits[n + 1]
    ELSE FormatHex(n \div 16) \o HexDigits[(n % 16) + 1]

\* The value of one hexadecimal digit, -1 for any other character.
DigitValue(c) ==
    IF \E d \in 1..16 : HexDigits[d] = c
    THEN (CHOOSE d \in 1..16 : HexDigits[d] = c) - 1
    ELSE IF \E d \in 1..16 : UpperHexDigits[d] = c
    THEN (CHOOSE d \in 1..16 : UpperHexDigits[d] = c) - 1
    ELSE -1

\* DigitsValue with the digits weighed in base 10, as int(s) would.
RECURSIVE DigitsValue_decimal(_, _)
DigitsValue_decimal(cs, acc) ==
    IF cs = <<>> THEN acc
    ELSE DigitsValue_decimal(Tail(cs), acc * 10 + DigitValue(Head(cs)))

RECURSIVE DigitsValue(_, _)
DigitsValue(cs, acc) ==
    IF cs = <<>> THEN acc
    ELSE DigitsValue(Tail(cs), acc * 16 + DigitValue(Head(cs)))

\* int(s, 16): an optional sign, an optional 0x/0X prefix, then one or more
\* hexadecimal digits; anything else raises ValueError.  (Surrounding
\* whitespace and digit-grouping underscores, which int() also accepts, do
\* not occur in ContentValues.)
ParseHex(cs) ==
    LET signedLit == cs # <<>> /\ Head(cs) \in {"+", "-"}
        body == IF signedLit THEN Tail(cs) ELSE cs
        prefixed == Len(body) >= 2 /\ body[1] = "0" /\ body[2] \in {"x", "X"}
        digits == IF prefixed THEN SubSeq(body, 3, Len(body)) ELSE body
        wellFormed == /\ digits # <<>>
                      /\ \A k \in 1..Len(digits) : DigitValue(digits[k]) >= 0
        magnitude == DigitsValue(digits, 0)
    IN  IF ~wellFormed THEN [ok |-> FALSE, value |-> 0]
        ELSE [ok |-> TRUE,
              value |-> IF signedLit /\ Head(cs) = "-" THEN 0 - magnitude
                        ELSE magnitude]

\* Truthy as `contentValue is not None` would test it.
Truthy_notNone(t) == ~t.isNone

\* Truthiness of a "str or None": None and "" are false.
Truthy(t) == ~t.isNone /\ t.chars # <<>>

\* InRange with the upper end included.
InRange_inclusive(index, n) == 0 <= index /\ index <= n

\* `index in range(n)`.
InRange(index, n) == 0 <= index /\ index < n

\* ------------------------------------------------------ results of a call

ReturnStr(s) == [tag |-> "str", str |-> s]
ReturnInt(n) == [tag |-> "int", int |-> n]
ReturnBool(b) == [tag |-> "bool", bool |-> b]
ReturnNone == [tag |-> "None"]
ReturnValue(h) == [tag |-> "SBValue", handle |-> h]
Raise(exc) == [tag |-> "raise", exc |-> exc]

\* A hook call: the operation, its arguments, what it returned, the children
\* it had the host create and the memory reads it had the host make.
Call(op, args, ret, created, reads) ==
    [op |-> op, args |-> args, ret |-> ret, created |-> created, reads |-> reads]
NoCall == Call("none", <<>>, ReturnNone, <<>>, <<>>)

\* ------------------------------------------------------------------ Vector

\* Vector.__init__: the adapter captures the value's name and frame.
Vector_init(value) ==
    [name |-> value.name, frame |-> value.frame, value |-> value]

Vector_GetExpressionPath(self, path) ==
    EvaluateExpression(self.frame, self.name \o path)

\* SBValue.CreateValueFromExpression(name, expression) on the captured value:
\* the host returns a handle for that expression under that name.
Vector_CreateExpressionPathValue(self, name, path) ==
    [name |-> name, expression |-> self.name \o path, parent |-> self.value.name]

\* Vector_num_children with the sign of the count dropped.
Vector_num_children_magnitude(self) ==
    LET n == signed(Vector_GetExpressionPath(self, ".count"))
    IN  IF n < 0 THEN 0 - n ELSE n

Vector_num_children(self) ==
    signed(Vector_GetExpressionPath(self, ".count"))

\* has_children with `>= 0` for `> 0`.
has_children_nonneg(self) == Vector_num_children(self) >= 0

\* SyntheticWrapper.has_children, dispatching to Vector.num_children.
has_children(self) == Vector_num_children(self) > 0

\* Vector.get_child_at_index: the returned value and the children created.
Vector_get_child_at_index(self, index) ==
    IF ~InRange(index, Vector_num_children(self))
    THEN [ret |-> ReturnNone, created |-> <<>>]
    ELSE LET child == Vector_CreateExpressionPathValue(
                          self, "[" \o ToString(index) \o "]",
                          "[" \o ToString(index) \o "]")
         IN  [ret |-> ReturnValue(child), created |-> <<child>>]

\* Vector.summary(value): a fresh adapter per call.
Vector_summary(value) ==
    LET v == Vector_init(value)
        pointer == GetValueAsUnsigned(Vector_GetExpressionPath(v, ".pointer"))
    IN  ReturnStr("0x" \o FormatHex(pointer) \o " ("
                  \o ToString(Vector_num_children(v)) \o " values)")

\* ------------------------------------------------------------------ Matrix

Matrix_init(value) ==
    [name |-> value.name, frame |-> value.frame, target |-> value.target,
     value |-> value]

Matrix_GetExpressionPath(self, path) ==
    EvaluateExpression(self.frame, self.name \o path)

\* One CreateValueFromAddress(name, address, type) request.
ReadAt(name, address, type) == [name |-> name, address |-> address, type |-> type]

\* Matrix.summary(value): the returned value (or the exception raised) and
\* the typed reads requested of the host.
Matrix_summary(value) ==
    LET matrix == Matrix_init(value)
        pointer == GetValueAsUnsigned(Matrix_GetExpressionPath(matrix, ".pointer"))
        contentValue ==
            GetValue(Matrix_GetExpressionPath(matrix, ".pointer.pointee.content!"))
        type == FindFirstType(matrix.target, "sunindextype")
        offset == type
        parsed == ParseHex(contentValue.chars)
        address == parsed.value
        rows == ReadUnsigned(address, type)
        cols == ReadUnsigned(address + offset, type)
        text(r, c) == "0x" \o FormatHex(pointer) \o " (" \o ToString(r) \o "×"
                      \o ToString(c) \o " values)"
    IN  IF Truthy(contentValue)
        THEN IF ~parsed.ok
             THEN [ret |-> Raise("ValueError"), reads |-> <<>>]
             ELSE [ret |-> ReturnStr(text(rows, cols)),
                   reads |-> <<ReadAt("rows", address, type),
                               ReadAt("cols", address + offset, type)>>]
        ELSE [ret |-> ReturnStr(text(0, 0)), reads |-> <<>>]

\* ---------------------------------------------------------- initialisation

\* Path(__file__).stem of Debug/LLDB.py.
Stem == "LLDB"

\* The classes __lldb_init_module walks, with the base classes of each.
Classes ==
    << [qualname |-> "Vector", bases |-> {"SummaryProvider", "SyntheticWrapper"}],
       [qualname |-> "Matrix", bases |-> {"SummaryProvider"}] >>

\* issubclass that takes every class for a subclass of every base.
issubclass_any(cls, base) == base \in {"SummaryProvider", "SyntheticWrapper"}

issubclass(cls, base) == base \in cls.bases

\* A command is the list of the words of the string HandleCommand receives.
DefineCommand == <<"type", "category", "define", "Sundials">>
EnableCommand == <<"type", "category", "enable", "Sundials">>
SummaryCommand(cls) ==
    <<"type", "summary", "add", "Sundials." \o cls.qualname,
      "--python-function", Stem \o "." \o cls.qualname \o ".summary",
      "--category", "Sundials">>
SyntheticCommand(cls) ==
    <<"type", "synthetic", "add", "Sundials." \o cls.qualname,
      "--python-class", Stem \o "." \o cls.qualname,
      "--category", "Sundials">>

\* The body of `for cls in [Vector, Matrix]`.
RECURSIVE RegisterClasses(_)
RegisterClasses(classes) ==
    IF classes = <<>> THEN <<>>
    ELSE LET cls == Head(classes)
         IN  (IF issubclass(cls, "SummaryProvider")
              THEN <<SummaryCommand(cls)>> ELSE <<>>)
             \o (IF issubclass(cls, "SyntheticWrapper")
                 THEN <<SyntheticCommand(cls)>> ELSE <<>>)
             \o RegisterClasses(Tail(classes))

\* __lldb_init_module: the host imports the module once per session.
lldb_init_module ==
    /\ commands = <<>>
    /\ commands' = commands \o <<DefineCommand>> \o RegisterClasses(Classes)
                            \o <<EnableCommand>>
    /\ UNCHANGED <<count, vecPointer, matPointer, content, indexSize, mem,
                   vector, last>>

\* The host calls a hook only when the category is enabled and a command
\* registered that kind of hook for the type.
HookRegistered(kind, typeName) ==
    /\ \E k \in 1..Len(commands) : commands[k] = EnableCommand
    /\ \E k \in 1..Len(commands) :
          SubSeq(commands[k], 1, 4) = <<"type", kind, "add", typeName>>

\* ------------------------------------------------------------------ actions

\* A hook call returns to the host: the call is the latest one.  The process
\* and the adapter are left as they were.
Returns(call) ==
    /\ last' = call
    /\ UNCHANGED <<commands, count, vecPointer, matPointer, content, indexSize,
                   mem, vector>>

\* `type summary` hook of Sundials.Vector.
CallVectorSummary ==
    /\ HookRegistered("summary", "Sundials.Vector")
    /\ Returns(Call("Vector.summary", <<>>,
                    Vector_summary(ValueHandle(VectorName)), <<>>, <<>>))

\* `type synthetic` hooks of Sundials.Vector, on the constructed wrapper.
CallNumChildren ==
    /\ HookRegistered("synthetic", "Sundials.Vector")
    /\ Returns(Call("Vector.num_children", <<>>,
                    ReturnInt(Vector_num_children(vector)), <<>>, <<>>))

CallHasChildren ==
    /\ HookRegistered("synthetic", "Sundials.Vector")
    /\ Returns(Call("Vector.has_children", <<>>,
                    ReturnBool(has_children(vector)), <<>>, <<>>))

\* CallGetChildAtIndex where the adapter keeps the child's expression as its
\* own name.
CallGetChildAtIndex_renaming ==
    /\ HookRegistered("synthetic", "Sundials.Vector")
    /\ \E index \in Indices :
          LET r == Vector_get_child_at_index(vector, index)
          IN  /\ last' = Call("Vector.get_child_at_index", <<index>>,
                              r.ret, r.created, <<>>)
              /\ vector' = IF r.created = <<>> THEN vector
                           ELSE [vector EXCEPT !.name = r.created[1].expression]
    /\ UNCHANGED <<commands, count, vecPointer, matPointer, content, indexSize,
                   mem>>

CallGetChildAtIndex ==
    /\ HookRegistered("synthetic", "Sundials.Vector")
    /\ \E index \in Indices :
          LET r == Vector_get_child_at_index(vector, index)
          IN  Returns(Call("Vector.get_child_at_index", <<index>>,
                           r.ret, r.created, <<>>))

\* `type summary` hook of Sundials.Matrix.
CallMatrixSummary ==
    /\ HookRegistered("summary", "Sundials.Matrix")
    /\ LET r == Matrix_summary(ValueHandle(MatrixName))
       IN  Returns(Call("Matrix.summary", <<>>, r.ret, <<>>, r.reads))

\* The inspected process runs between two stops and changes one of the
\* things the adapters read; what was displayed before is stale.
ProcessRuns ==
    /\ commands # <<>>
    /\ \/ /\ count' \in ({InvalidValue} \cup {IntValue(n) : n \in Counts}) \ {count}
          /\ UNCHANGED <<vecPointer, matPointer, content, indexSize, mem>>
       \/ /\ vecPointer' \in Pointers \ {vecPointer}
          /\ UNCHANGED <<count, matPointer, content, indexSize, mem>>
       \/ /\ matPointer' \in Pointers \ {matPointer}
          /\ UNCHANGED <<count, vecPointer, content, indexSize, mem>>
       \/ /\ content' \in ContentValues \ {content}
          /\ UNCHANGED <<count, vecPointer, matPointer, indexSize, mem>>
       \/ /\ indexSize' \in IndexTypeSizes \ {indexSize}
          /\ UNCHANGED <<count, vecPointer, matPointer, content, mem>>
       \/ /\ \E a \in MappedSlots, v \in SlotValues :
                /\ mem[a] # v
                /\ mem' = [mem EXCEPT ![a] = v]
          /\ UNCHANGED <<count, vecPointer, matPointer, content, indexSize>>
    /\ last' = NoCall
    /\ UNCHANGED <<commands, vector>>

Init ==
    /\ commands = <<>>
    /\ count = IntValue(0)
    /\ vecPointer = 0
    /\ matPointer = 0
    /\ content = NoneStr
    /\ indexSize = 8
    /\ mem = [a \in MappedSlots |-> 4]
    /\ vector = Vector_init(ValueHandle(VectorName))
    /\ last = NoCall
    /\ snapshot = NoCall

\* The history variable `snapshot`: Forget never fills it; Remember may keep
\* the call made before this one; Stale drops it when the process has run.
Forget == snapshot' = snapshot
Remember == snapshot' \in {snapshot, last}
Stale == snapshot' = NoCall

Next ==
    \/ lldb_init_module /\ Forget
    \/ CallVectorSummary /\ Forget
    \/ CallNumChildren /\ Forget
    \/ CallHasChildren /\ Forget
    \/ CallGetChildAtIndex /\ Forget
    \/ CallMatrixSummary /\ Forget
    \/ ProcessRuns /\ Forget

Spec == Init /\ [][Next]_vars

\* The same program, with earlier calls remembered for comparison.
NextTwice ==
    \/ lldb_init_module /\ Forget
    \/ CallVectorSummary /\ Remember
    \/ CallNumChildren /\ Remember
    \/ CallHasChildren /\ Remember
    \/ CallGetChildAtIndex /\ Remember
    \/ CallMatrixSummary /\ Remember
    \/ ProcessRuns /\ Stale

SpecTwice == Init /\ [][NextTwice]_vars

\* ------------------------------------------------------------------ claims

\* The count the process holds for the Vector, as the adapter reads it.
HostCount == IF count.valid THEN count.int ELSE 0
Called(op) == last.op = op
\* The text of a Matrix summary with the given dimensions.
MatrixText(r, c) ==
    "0x" \o FormatHex(matPointer) \o " (" \o ToString(r) \o "×" \o ToString(c)
         \o " values)"

\* C1: for every count N >= 0 the host returns for `y.count`, num_children()
\* returns exactly N and has_children() returns True exactly when N > 0.
C1_CountReported ==
    (count.valid /\ count.int >= 0) =>
        /\ Called("Vector.num_children") => last.ret = ReturnInt(count.int)
        /\ Called("Vector.has_children") => last.ret = ReturnBool(count.int > 0)

C1_Witness ==
    /\ Called("Vector.has_children")
    /\ count.valid /\ count.int > 0
    /\ last.ret = ReturnBool(TRUE)

\* C2: get_child_at_index(i) with 0 <= i < N returns the handle the host
\* created from the expression `y[i]` of the original value, named `[i]`; for
\* i outside [0, N) it returns None and has the host create nothing.
C2_ChildAtIndex ==
    Called("Vector.get_child_at_index") =>
        LET i == last.args[1]
            child == [name |-> "[" \o ToString(i) \o "]",
                      expression |-> "y[" \o ToString(i) \o "]",
                      parent |-> "y"]
        IN  IF 0 <= i /\ i < HostCount
            THEN last.ret = ReturnValue(child) /\ last.created = <<child>>
            ELSE last.ret = ReturnNone /\ last.created = <<>>

C2_Witness ==
    /\ Called("Vector.get_child_at_index")
    /\ last.args = <<1>>
    /\ HostCount = 2
    /\ last.ret.tag = "SBValue"

\* C3: Vector.summary returns `0x<A> (<N> values)`, A the unsigned value of
\* `y.pointer` in lowercase hexadecimal without padding, N what num_children()
\* returns; address 0xABCD and count 3 give `0xabcd (3 values)`.
C3_VectorSummary ==
    Called("Vector.summary") =>
        /\ last.ret.tag = "str"
        /\ vecPointer = 43981 =>
              last.ret.str = "0xabcd (" \o ToString(HostCount) \o " values)"
        /\ vecPointer = 0 =>
              last.ret.str = "0x0 (" \o ToString(HostCount) \o " values)"
        /\ (vecPointer = 43981 /\ count = IntValue(3)) =>
              last.ret.str = "0xabcd (3 values)"

C3_Witness ==
    /\ Called("Vector.summary")
    /\ vecPointer = 43981
    /\ count = IntValue(3)
    /\ last.ret = ReturnStr("0xabcd (3 values)")

\* C4: when the content expression yields a hexadecimal address C,
\* Matrix.summary reads rows as an index-typed value at C and cols at C + S,
\* S the byte size of sunindextype, and returns
\* `0x<pointer hex> (<rows>×<cols> values)`; slots 4 and 5 give `(4×5 values)`.
C4_MatrixDimensions ==
    Called("Matrix.summary") =>
        /\ \A C \in {0, 16} :
              content = (IF C = 0 THEN NullAddressText ELSE BufferAddressText) =>
                 /\ last.reads = << [name |-> "rows", address |-> C,
                                     type |-> indexSize],
                                    [name |-> "cols", address |-> C + indexSize,
                                     type |-> indexSize] >>
                 /\ last.ret = ReturnStr(MatrixText(
                                   ReadUnsigned(C, indexSize),
                                   ReadUnsigned(C + indexSize, indexSize)))
        /\ ( /\ content = BufferAddressText /\ indexSize = 8
             /\ mem[16] = 4 /\ mem[24] = 5 /\ matPointer = 43981 ) =>
              last.ret = ReturnStr("0xabcd (4×5 values)")

C4_Witness ==
    /\ Called("Matrix.summary")
    /\ content = BufferAddressText /\ indexSize = 8
    /\ mem[16] = 4 /\ mem[24] = 5 /\ matPointer = 43981
    /\ last.ret = ReturnStr("0xabcd (4×5 values)")

C6_NeverRaises == last.ret.tag # "raise"

\* C7, as claimed: the child count a Vector adapter reports is non-negative
\* for every value the host can return for `y.count`.
C7_CountNonNegative ==
    Called("Vector.num_children") => last.ret.int >= 0

\* C8: on an unchanged inspected value, a call repeated after any other calls
\* gives the result it gave before, and no call changes the adapter's
\* captured state or the process.
C8_Idempotent ==
    [][ /\ vector' = vector
        /\ (last'.op # "none") => (process' = process)
        /\ (snapshot'.op = last'.op /\ snapshot'.args = last'.args) =>
              snapshot' = last' ]_vars

C8_Witness ==
    /\ snapshot.op = "Vector.get_child_at_index"
    /\ Called("Vector.get_child_at_index")
    /\ snapshot.args = last.args
    /\ last.ret.tag = "SBValue"

\* C9: module initialisation defines the category Sundials first, then
\* registers every hook scoped to that category, and enables the category
\* last; a summary hook is registered for Vector and for Matrix, a
\* synthetic-children hook for Vector only.
C9_InitOrder ==
    commands # <<>> =>
        LET n == Len(commands)
            Adds(kind, typeName) ==
                \E k \in 1..n : /\ commands[k][2] = kind
                                /\ commands[k][3] = "add"
                                /\ commands[k][4] = typeName
        IN  /\ commands[1] = <<"type", "category", "define", "Sundials">>
            /\ commands[n] = <<"type", "category", "enable", "Sundials">>
            /\ \A k \in 2..(n - 1) :
                  LET c == commands[k]
                  IN  /\ SubSeq(c, 1, 3) \in {<<"type", "summary", "add">>,
                                              <<"type", "synthetic", "add">>}
                      /\ SubSeq(c, Len(c) - 1, Len(c)) = <<"--category", "Sundials">>
            /\ Adds("summary", "Sundials.Vector")
            /\ Adds("summary", "Sundials.Matrix")
            /\ Adds("synthetic", "Sundials.Vector")
            /\ ~Adds("synthetic", "Sundials.Matrix")

C9_Witness ==
    /\ Len(commands) = 5
    /\ commands[3] = <<"type", "synthetic", "add", "Sundials.Vector",
                       "--python-class", "LLDB.Vector",
                       "--category", "Sundials">>

\* C10: when the host returns a negative count, the Vector adapter exposes no
\* children and does not fail: has_children() is False, get_child_at_index(i)
\* returns None for every i, and Vector.summary returns a string showing the
\* negative count unchanged.
C10_NegativeCount ==
    (count.valid /\ count.int < 0) =>
        /\ Called("Vector.has_children") => last.ret = ReturnBool(FALSE)
        /\ Called("Vector.get_child_at_index") =>
              last.ret = ReturnNone /\ last.created = <<>>
        /\ Called("Vector.summary") =>
              last.ret = ReturnStr("0x" \o FormatHex(vecPointer) \o " ("
                                   \o ToString(count.int) \o " values)")
        /\ (Called("Vector.summary") /\ count.int = -1 /\ vecPointer = 43981) =>
              last.ret = ReturnStr("0xabcd (-1 values)")

C10_Witness ==
    /\ count = IntValue(-1)
    /\ vecPointer = 43981
    /\ last = Call("Vector.summary", <<>>, ReturnStr("0xabcd (-1 values)"),
                   <<>>, <<>>)

=============================================================================
